---- MODULE Spec2Model ----
(***************************************************************************)
(* Model of youtube_metadata_fetcher/main.py.                              *)
(*                                                                         *)
(* Text is a sequence of one-character strings, so that the regular        *)
(* expression passes of clean_text and clean_transcript are computed       *)
(* character by character, as Python's re module computes them.            *)
(*                                                                         *)
(* Two specifications:                                                     *)
(*   SpecClean  the passes of clean_transcript applied, one after the      *)
(*              other, to a bounded set of caption payloads, followed by   *)
(*              a second application of the whole function;                *)
(*   Spec       one run of the command fetch_metadata: a single video or   *)
(*              a playlist, process_video per entry, then the save.        *)
(***************************************************************************)
EXTENDS Naturals, Sequences, FiniteSets, TLC

VARIABLES
    raw_transcript,  \* clean_transcript: its argument
    transcript,      \* clean_transcript: the local being rewritten
    cpc,             \* clean_transcript: the pass that runs next
    again,           \* the result of a second clean_transcript on the result
    pc,              \* fetch_metadata: where the command is
    format,          \* fetch_metadata: the --format option
    info,            \* fetch_metadata: what ydl.extract_info(url) returned
    idx,             \* fetch_metadata: position of the loop in info["entries"]
    all_metadata,    \* fetch_metadata: the records gathered for the playlist
    video,           \* the last process_video call: what it was given and returned
    visited,         \* per entry visited so far, what became of it
    saves,           \* the calls of save_metadata / save_playlist_metadata
    file,            \* the output file: its path and the writes made to it
    echo             \* the error messages given to click.echo

cvars == <<raw_transcript, transcript, cpc, again>>
mvars == <<pc, format, info, idx, all_metadata, video, visited, saves, file, echo>>
vars == <<cvars, mvars>>

\* Python's None where a str is expected: a value that is no text (its one
\* element is not a character).
None == <<"None">>

-----------------------------------------------------------------------------
(* Characters and character classes of Python's re module.                 *)

NL == "\n"

\* \d
Digit == {"0", "1", "2", "3", "4", "5", "6", "7", "8", "9"}

\* \s, and the characters str.strip() removes
Whitespace == {" ", "\t", "\n", "\r", "\f"}

RECURSIVE Concat(_)
Concat(ss) == IF ss = <<>> THEN <<>> ELSE Head(ss) \o Concat(Tail(ss))

\* Whether the literal lit occurs in s at index i.
LitAt(s, i, lit) ==
    /\ i + Len(lit) - 1 <= Len(s)
    /\ \A k \in 1..Len(lit) : s[i + k - 1] = lit[k]

\* The least index >= from at which lit occurs in s; 0 when there is none.
RECURSIVE Find(_, _, _)
Find(s, from, lit) ==
    IF from + Len(lit) - 1 > Len(s) THEN 0
    ELSE IF LitAt(s, from, lit) THEN from
    ELSE Find(s, from + 1, lit)

\* The least index >= from of character c with no newline before it on the
\* way ('.' does not match a newline without re.DOTALL); 0 when there is none.
RECURSIVE FindOnLine(_, _, _)
FindOnLine(s, from, c) ==
    IF from > Len(s) THEN 0
    ELSE IF s[from] = c THEN from
    ELSE IF s[from] = NL THEN 0
    ELSE FindOnLine(s, from + 1, c)

-----------------------------------------------------------------------------
(* clean_text and the passes of clean_transcript.                          *)

\* The length of the run of whitespace that starts at index i.
RECURSIVE RunLen(_, _)
RunLen(s, i) ==
    IF i > Len(s) \/ s[i] \notin Whitespace THEN 0 ELSE 1 + RunLen(s, i + 1)

\* re.sub(r"\s{2,}", " ", s)
RECURSIVE CollapseFrom(_, _)
CollapseFrom(s, i) ==
    IF i > Len(s) THEN <<>>
    ELSE LET n == RunLen(s, i)
         IN  IF n >= 2 THEN <<" ">> \o CollapseFrom(s, i + n)
             ELSE <<s[i]>> \o CollapseFrom(s, i + 1)

Collapse(s) == CollapseFrom(s, 1)

RECURSIVE LStrip(_)
LStrip(s) ==
    IF s # <<>> /\ Head(s) \in Whitespace THEN LStrip(Tail(s)) ELSE s

RECURSIVE RStrip(_)
RStrip(s) ==
    IF s # <<>> /\ s[Len(s)] \in Whitespace
    THEN RStrip(SubSeq(s, 1, Len(s) - 1)) ELSE s

\* str.strip()
Strip(s) == RStrip(LStrip(s))

clean_text(text) ==
    IF text = None \/ text = <<>> THEN <<"N", "/", "A">>
    ELSE Strip(Collapse(text))

WEBVTT == <<"W", "E", "B", "V", "T", "T">>
KindLine == <<NL, "K", "i", "n", "d", ":">>
LanguageLine == <<NL, "L", "a", "n", "g", "u", "a", "g", "e", ":">>

\* The index of the last character of the match of
\* WEBVTT.*?\nKind:.*?\nLanguage:.*?\n (re.DOTALL) that starts at i; 0 when the
\* pattern does not match at i. With DOTALL each lazy .*? stops at the first
\* occurrence of the literal that follows it.
HeaderEnd(s, i) ==
    IF ~LitAt(s, i, WEBVTT) THEN 0
    ELSE LET k == Find(s, i + Len(WEBVTT), KindLine)
         IN  IF k = 0 THEN 0
             ELSE LET l == Find(s, k + Len(KindLine), LanguageLine)
                  IN  IF l = 0 THEN 0
                      ELSE Find(s, l + Len(LanguageLine), <<NL>>)

\* The index of the last character of the match of
\* \d{2}:\d{2}:\d{2}\.\d{3}.*?\n that starts at i; 0 when there is none.
TimestampAt(s, i) ==
    /\ i + 11 <= Len(s)
    /\ \A k \in {0, 1, 3, 4, 6, 7, 9, 10, 11} : s[i + k] \in Digit
    /\ s[i + 2] = ":" /\ s[i + 5] = ":" /\ s[i + 8] = "."

TimestampEnd(s, i) ==
    IF TimestampAt(s, i) THEN FindOnLine(s, i + 12, NL) ELSE 0

\* The index of the last character of the match of open.*?close at i.
DelimEnd(s, i, open, close) ==
    IF s[i] = open THEN FindOnLine(s, i + 1, close) ELSE 0

\* re.sub(r"WEBVTT.*?\nKind:.*?\nLanguage:.*?\n", "", s, flags=re.DOTALL)
RECURSIVE StripHeaderFrom(_, _)
StripHeaderFrom(s, i) ==
    IF i > Len(s) THEN <<>>
    ELSE LET e == HeaderEnd(s, i)
         IN  IF e # 0 THEN StripHeaderFrom(s, e + 1)
             ELSE <<s[i]>> \o StripHeaderFrom(s, i + 1)

StripHeader(s) == StripHeaderFrom(s, 1)

\* re.sub(r"\d{2}:\d{2}:\d{2}\.\d{3}.*?\n", "", s)
RECURSIVE StripTimestampsFrom(_, _)
StripTimestampsFrom(s, i) ==
    IF i > Len(s) THEN <<>>
    ELSE LET e == TimestampEnd(s, i)
         IN  IF e # 0 THEN StripTimestampsFrom(s, e + 1)
             ELSE <<s[i]>> \o StripTimestampsFrom(s, i + 1)

StripTimestamps(s) == StripTimestampsFrom(s, 1)

RECURSIVE StripDelimFrom(_, _, _, _)
StripDelimFrom(s, i, open, close) ==
    IF i > Len(s) THEN <<>>
    ELSE LET e == DelimEnd(s, i, open, close)
         IN  IF e # 0 THEN StripDelimFrom(s, e + 1, open, close)
             ELSE <<s[i]>> \o StripDelimFrom(s, i + 1, open, close)

\* re.sub(r"<.*?>", "", s)
StripTags(s) == StripDelimFrom(s, 1, "<", ">")

\* re.sub(r"\[.*?\]", "", s)
StripBrackets(s) == StripDelimFrom(s, 1, "[", "]")

\* The pass of line 30 left out.
StripAngle_Skipped(s) == s

\* re.sub(r"<", "", s)
StripAngle(s) == SelectSeq(s, LAMBDA c : c # "<")

\* re.sub(r"\n", " ", s)
FoldLines(s) == [k \in 1..Len(s) |-> IF s[k] = NL THEN " " ELSE s[k]]

clean_transcript(raw) ==
    Strip(Collapse(FoldLines(StripAngle(StripBrackets(StripTags(
        StripTimestamps(StripHeader(raw))))))))

-----------------------------------------------------------------------------
(* Caption payloads: concatenations of at most MaxFrags fragments.         *)

MaxFrags == 3

Timestamp == <<"0", "0", ":", "0", "0", ":", "0", "1", ".", "5", "0", "0">>

Fragments ==
    { Timestamp, WEBVTT \o KindLine, LanguageLine,
      <<"a">>, <<" ">>, <<"\t">>, <<NL>>, <<"<">>, <<">">>, <<"[">>, <<"]">> }

RECURSIVE FragSeqs(_)
FragSeqs(n) ==
    IF n = 0 THEN {<<>>}
    ELSE LET shorter == FragSeqs(n - 1)
         IN  shorter \cup {<<f>> \o fs : f \in Fragments,
                                         fs \in {x \in shorter : Len(x) = n - 1}}

Payloads == {Concat(fs) : fs \in FragSeqs(MaxFrags)}

-----------------------------------------------------------------------------
(* process_video and its helpers.                                          *)

NoEnglish ==
    <<"N", "o", " ", "E", "n", "g", "l", "i", "s", "h", " ", "s", "u", "b",
      "t", "i", "t", "l", "e", "s", " ", "a", "v", "a", "i", "l", "a", "b",
      "l", "e", ".">>

NoVtt ==
    <<"T", "r", "a", "n", "s", "c", "r", "i", "p", "t", " ", "n", "o", "t",
      " ", "a", "v", "a", "i", "l", "a", "b", "l", "e", " ", "i", "n", " ",
      "V", "T", "T", " ", "f", "o", "r", "m", "a", "t", ".">>

ErrorFetching ==
    <<"E", "r", "r", "o", "r", " ", "f", "e", "t", "c", "h", "i", "n", "g",
      " ", "t", "r", "a", "n", "s", "c", "r", "i", "p", "t", ":", " ">>

\* requests.get(vtt_url) followed by raise_for_status(): response.raised says
\* whether either raised, response.detail is then str(e).
fetch_transcript(response) ==
    IF response.raised THEN ErrorFetching \o response.detail
    ELSE response.text

\* d.get(k) for a key whose value is a str.
Get(d, k) == IF k \in DOMAIN d THEN d[k] ELSE None

\* A caption index is a function from language codes to sequences of
\* [ext, url]; the empty dict is the function of empty domain.
EmptyIndex == [l \in {} |-> <<>>]

\* bool(d.get(k)) for a key whose value is a dict: neither absent nor empty.
Truthy(d, k) == k \in DOMAIN d /\ DOMAIN d[k] # {}

\* info.get("subtitles") or info.get("automatic_captions"). An absent second
\* index is given as the empty one: both are false in the test that follows.
Subtitles(vinfo) ==
    IF Truthy(vinfo, "subtitles") THEN vinfo.subtitles
    ELSE IF "automatic_captions" \in DOMAIN vinfo THEN vinfo.automatic_captions
    ELSE EmptyIndex

\* next((f["url"] for f in subtitle_formats if f["ext"] == "vtt"), None)
RECURSIVE NextVttUrl(_)
NextVttUrl(subtitle_formats) ==
    IF subtitle_formats = <<>> THEN None
    ELSE IF Head(subtitle_formats).ext = "vtt" THEN Head(subtitle_formats).url
    ELSE NextVttUrl(Tail(subtitle_formats))

\* The condition of "if subtitles and 'en' in subtitles".
HasEnglish(subtitles) == DOMAIN subtitles # {} /\ "en" \in DOMAIN subtitles

\* vtt_url of process_video; None when the code does not get to compute it.
VttUrl(vinfo) ==
    LET subtitles == Subtitles(vinfo)
    IN  IF HasEnglish(subtitles) THEN NextVttUrl(subtitles["en"]) ELSE None

\* Whether process_video calls fetch_transcript: "if vtt_url".
Fetches(vinfo) == VttUrl(vinfo) # None /\ VttUrl(vinfo) # <<>>

\* The two fallback strings taken one for the other.
Transcript_Swapped(vinfo, response) ==
    LET subtitles == Subtitles(vinfo)
    IN  IF HasEnglish(subtitles)
        THEN IF Fetches(vinfo)
             THEN clean_transcript(fetch_transcript(response))
             ELSE NoEnglish
        ELSE NoVtt

\* The transcript process_video puts in the record.
Transcript(vinfo, response) ==
    LET subtitles == Subtitles(vinfo)
    IN  IF HasEnglish(subtitles)
        THEN IF Fetches(vinfo)
             THEN clean_transcript(fetch_transcript(response))
             ELSE NoVtt
        ELSE NoEnglish

\* What process_video returns in place of a record: None.
NoMetadata == [title |-> None, description |-> None, transcript |-> None]

\* extracted is what ydl.extract_info(video_url) did: it raised, or it returned
\* extracted.info.
process_video(extracted, response) ==
    IF extracted.raised THEN NoMetadata
    ELSE [title |-> clean_text(Get(extracted.info, "title")),
          description |-> clean_text(Get(extracted.info, "description")),
          transcript |-> Transcript(extracted.info, response)]

-----------------------------------------------------------------------------
(* save_metadata and save_playlist_metadata.                               *)

DividerWidth == 50

TitleLabel == <<"T", "i", "t", "l", "e", ":", " ">>
DescriptionLabel ==
    <<"D", "e", "s", "c", "r", "i", "p", "t", "i", "o", "n", ":", " ">>
TranscriptLabel ==
    <<"T", "r", "a", "n", "s", "c", "r", "i", "p", "t", ":", NL>>

\* 50 * "-" + NL
Divider == [k \in 1..DividerWidth |-> "-"] \o <<NL>>

\* The three f.write calls per record.
RecordWrites(metadata) ==
    << TitleLabel \o metadata.title \o <<NL>>,
       DescriptionLabel \o metadata.description \o <<NL>>,
       TranscriptLabel \o metadata.transcript \o <<NL>> >>

\* The divider written between two records only, not after the last.
RECURSIVE PlaylistWrites_Between(_)
PlaylistWrites_Between(batch) ==
    IF batch = <<>> THEN <<>>
    ELSE IF Len(batch) = 1 THEN RecordWrites(Head(batch))
    ELSE RecordWrites(Head(batch)) \o <<Divider>> \o PlaylistWrites_Between(Tail(batch))

\* The f.write calls of the loop of save_playlist_metadata.
RECURSIVE PlaylistWrites(_)
PlaylistWrites(batch) ==
    IF batch = <<>> THEN <<>>
    ELSE RecordWrites(Head(batch)) \o <<Divider>> \o PlaylistWrites(Tail(batch))

NoFile == [name |-> "", ext |-> "", writes |-> <<>>, json |-> <<>>]

\* The file a save leaves. A JSON document is given by the value it encodes
\* (the list of records dumped), a text file by the sequence of its writes.
\* opened: whether open(output_file, "w") succeeded.
save_metadata(video_id, metadata, fmt, opened) ==
    IF ~opened THEN NoFile
    ELSE IF fmt = "json"
    THEN [name |-> video_id, ext |-> "json", writes |-> <<>>, json |-> <<metadata>>]
    ELSE [name |-> video_id, ext |-> "txt", writes |-> RecordWrites(metadata),
          json |-> <<>>]

save_playlist_metadata(playlist_id, batch, fmt, opened) ==
    IF ~opened THEN NoFile
    ELSE IF fmt = "json"
    THEN [name |-> playlist_id, ext |-> "json", writes |-> <<>>, json |-> batch]
    ELSE [name |-> playlist_id, ext |-> "txt", writes |-> PlaylistWrites(batch),
          json |-> <<>>]

-----------------------------------------------------------------------------
(* What the platform and the network can answer.                           *)

MaxEntries == 3

SpecExample ==
    <<"W", "E", "B", "V", "T", "T", NL, "K", "i", "n", "d", ":", " ",
      "c", "a", "p", "t", "i", "o", "n", "s", NL, "L", "a", "n", "g",
      "u", "a", "g", "e", ":", " ", "e", "n", NL, NL, "0", "0", ":",
      "0", "0", ":", "0", "0", ".", "0", "0", "0", " ", "-", "-", ">", " ",
      "0", "0", ":", "0", "0", ":", "0", "2", ".", "0", "0", "0", NL,
      "[", "M", "u", "s", "i", "c", "]", " ", "H", "e", "l", "l", "o", " ",
      "<", "c", ">", "w", "o", "r", "l", "d", "<", "/", "c", ">">>

Titles == { <<>>, <<" ">>, <<"a">>, <<" ", "a", " ", " ", "b", " ">> }
Descriptions == { <<"a", NL, NL, "b">>, <<"\t", " ">> }

Vtt(url) == [ext |-> "vtt", url |-> url]
Srv(url) == [ext |-> "srv1", url |-> url]

ManualIndexes ==
    { EmptyIndex,
      [fr |-> <<Vtt(<<"f">>)>>],
      [en |-> <<Srv(<<"s">>)>>],
      [en |-> <<Srv(<<"s">>), Vtt(<<"m">>)>>] }

AutomaticIndexes ==
    { EmptyIndex,
      [en |-> <<Srv(<<"s">>)>>],
      [en |-> <<Vtt(<<"u">>)>>] }

\* The records with key k absent, or present with a value of S.
Opt(k, S) == {[f \in {} |-> <<>>]} \cup {[f \in {k} |-> v] : v \in S}

\* The info dicts ydl.extract_info can return for a video.
VideoInfos ==
    { t @@ d @@ m @@ a : t \in Opt("title", Titles),
                         d \in Opt("description", Descriptions),
                         m \in Opt("subtitles", ManualIndexes),
                         a \in Opt("automatic_captions", AutomaticIndexes) }

Raised == [raised |-> TRUE]

Extractions == {Raised} \cup {[raised |-> FALSE, info |-> v] : v \in VideoInfos}

VttPayloads ==
    { <<>>, <<"a">>, <<"[", "a", "]", NL>>, <<"[", "a", NL, "b", "]">>,
      Timestamp \o <<NL, "a", "<", "c", ">">>, SpecExample }

FailureDetails ==
    { <<"t", "i", "m", "e", "d", " ", "o", "u", "t">>,
      <<"[", "E", "r", "r", "n", "o", " ", "2", "]", " ", "x">>,
      <<"<", "c", ">", " ", "d", "o", "w", "n">> }

Responses ==
    {[raised |-> FALSE, text |-> p] : p \in VttPayloads}
    \cup {[raised |-> TRUE, detail |-> e] : e \in FailureDetails}

\* What is kept of the response when process_video made no request.
NoResponse == [raised |-> FALSE, text |-> None]

\* The answers drawn for the videos of a playlist: a smaller choice, so that
\* playlists of MaxEntries entries stay explorable.
PlaylistExtractions ==
    { Raised,
      [raised |-> FALSE, info |-> [title |-> <<"a">>]],
      [raised |-> FALSE,
       info |-> [title |-> <<"b">>, subtitles |-> [en |-> <<Vtt(<<"m">>)>>]]] }

PlaylistResponses ==
    { [raised |-> FALSE, text |-> <<"a">>],
      [raised |-> TRUE, detail |-> <<"t">>] }

\* entry is None
NoneEntry == [unavailable |-> TRUE]

\* The entries of a flat playlist: None, a dict with an "id", a dict without.
Entries == { NoneEntry, [id |-> "v1", title |-> "one"], [id |-> "v2"],
             [title |-> "untitled"] }

RECURSIVE EntrySeqs(_)
EntrySeqs(n) ==
    IF n = 0 THEN {<<>>}
    ELSE LET shorter == EntrySeqs(n - 1)
         IN  shorter \cup {Append(es, e) : e \in Entries,
                                           es \in {x \in shorter : Len(x) = n - 1}}

\* What ydl.extract_info(url) of fetch_metadata can return.
TopInfos ==
    {[id |-> "PL", title |-> "list", entries |-> es] : es \in EntrySeqs(MaxEntries)}
    \cup {[id |-> "v0", title |-> "video"]}

NoInfo == [id |-> "", title |-> ""]

NoVideo ==
    [extracted |-> Raised, fetched |-> FALSE, vtt_url |-> None,
     response |-> NoResponse, metadata |-> NoMetadata]

\* The record of one process_video call.
Call(extracted, response) ==
    LET fetched == ~extracted.raised /\ Fetches(extracted.info)
    IN  [extracted |-> extracted,
         fetched |-> fetched,
         vtt_url |-> IF extracted.raised THEN None ELSE VttUrl(extracted.info),
         response |-> IF fetched THEN response ELSE NoResponse,
         metadata |-> process_video(extracted, response)]

-----------------------------------------------------------------------------
(* Spec: one run of fetch_metadata.                                        *)

CleanIdle ==
    /\ raw_transcript = None
    /\ transcript = None
    /\ cpc = "idle"
    /\ again = None

\* click.Choice(case_sensitive=False) hands the command the choice as it is
\* declared, so format is "json" or "text" and format.lower() leaves it as it is.
Init ==
    /\ CleanIdle
    /\ pc = "start"
    /\ format \in {"json", "text"}
    /\ info = NoInfo
    /\ idx = 0
    /\ all_metadata = <<>>
    /\ video = NoVideo
    /\ visited = <<>>
    /\ saves = <<>>
    /\ file = NoFile
    /\ echo = <<>>

\* Line 72 raises: the except of line 103.
ExtractFails ==
    /\ pc = "start"
    /\ pc' = "done"
    /\ echo' = Append(echo, "Error fetching metadata")
    /\ UNCHANGED <<cvars, format, info, idx, all_metadata, video, visited, saves, file>>

\* Line 72 returns, and line 74 tells a playlist from a single video.
ExtractInfo ==
    /\ pc = "start"
    /\ \E i \in TopInfos :
        /\ info' = i
        /\ IF "entries" \in DOMAIN i
           THEN pc' = "loop" /\ idx' = 1
           ELSE pc' = "single" /\ idx' = idx
    /\ UNCHANGED <<cvars, format, all_metadata, video, visited, saves, file, echo>>

InLoop == pc = "loop" /\ idx <= Len(info.entries)

\* Lines 80-83: an unavailable entry is skipped.
SkipEntry ==
    /\ InLoop
    /\ info.entries[idx] = NoneEntry
    /\ idx' = idx + 1
    /\ visited' = Append(visited, [status |-> "unavailable", metadata |-> NoMetadata])
    /\ UNCHANGED <<cvars, pc, format, info, all_metadata, video, saves, file, echo>>

\* Line 86: entry['id'] raises KeyError, caught by the except of line 103,
\* which is outside the loop.
EntryWithoutId ==
    /\ InLoop
    /\ info.entries[idx] # NoneEntry
    /\ "id" \notin DOMAIN info.entries[idx]
    /\ pc' = "done"
    /\ visited' = Append(visited, [status |-> "malformed", metadata |-> NoMetadata])
    /\ echo' = Append(echo, "Error fetching metadata")
    /\ UNCHANGED <<cvars, format, info, idx, all_metadata, video, saves, file>>

\* The record put at the front of the batch.
Gather_Prepend(batch, metadata) ==
    IF metadata # NoMetadata THEN <<metadata>> \o batch ELSE batch

\* What the loop body appends to all_metadata for the result of process_video.
Gather(batch, metadata) ==
    IF metadata # NoMetadata THEN Append(batch, metadata) ELSE batch

\* Lines 86-92: process_video on the entry, its record appended.
ProcessEntry ==
    /\ InLoop
    /\ info.entries[idx] # NoneEntry
    /\ "id" \in DOMAIN info.entries[idx]
    /\ \E extracted \in PlaylistExtractions, response \in PlaylistResponses :
        LET call == Call(extracted, response)
        IN  /\ video' = call
            /\ all_metadata' = Gather(all_metadata, call.metadata)
            /\ visited' = Append(visited,
                   [status |-> IF extracted.raised THEN "failed" ELSE "processed",
                    metadata |-> call.metadata])
            /\ echo' = IF extracted.raised
                       THEN Append(echo, "Error processing video")
                       ELSE echo
    /\ idx' = idx + 1
    /\ UNCHANGED <<cvars, pc, format, info, saves, file>>

\* Lines 94-95, after the loop.
SavePlaylist ==
    /\ pc = "loop"
    /\ idx > Len(info.entries)
    /\ \E opened \in BOOLEAN :
        /\ file' = save_playlist_metadata(info.id, all_metadata, format, opened)
        /\ echo' = IF opened THEN echo
                   ELSE Append(echo, "Error saving playlist metadata")
    /\ saves' = Append(saves, [fn |-> "save_playlist_metadata", id |-> info.id,
                               batch |-> all_metadata])
    /\ pc' = "done"
    /\ UNCHANGED <<cvars, format, info, idx, all_metadata, video, visited>>

\* Lines 98-101: process_video fails and nothing is saved.
SingleVideoFails ==
    /\ pc = "single"
    /\ video' = Call(Raised, NoResponse)
    /\ echo' = Append(echo, "Error processing video")
    /\ pc' = "done"
    /\ UNCHANGED <<cvars, format, info, idx, all_metadata, visited, saves, file>>

\* Lines 98-101: process_video returns a record, which save_metadata writes.
SingleVideo ==
    /\ pc = "single"
    /\ \E extracted \in Extractions \ {Raised}, response \in Responses,
          opened \in BOOLEAN :
        LET call == Call(extracted, response)
        IN  /\ video' = call
            /\ file' = save_metadata(info.id, call.metadata, format, opened)
            /\ echo' = IF opened THEN echo
                       ELSE Append(echo, "Error saving metadata")
            /\ saves' = Append(saves, [fn |-> "save_metadata", id |-> info.id,
                                       batch |-> <<call.metadata>>])
    /\ pc' = "done"
    /\ UNCHANGED <<cvars, format, info, idx, all_metadata, visited>>

Next ==
    \/ ExtractFails
    \/ ExtractInfo
    \/ SkipEntry
    \/ EntryWithoutId
    \/ ProcessEntry
    \/ SavePlaylist
    \/ SingleVideoFails
    \/ SingleVideo

Spec == Init /\ [][Next]_vars

-----------------------------------------------------------------------------
(* SpecClean: clean_transcript, pass by pass.                              *)

MainIdle ==
    /\ pc = "idle"
    /\ format = "text"
    /\ info = NoInfo
    /\ idx = 0
    /\ all_metadata = <<>>
    /\ video = NoVideo
    /\ visited = <<>>
    /\ saves = <<>>
    /\ file = NoFile
    /\ echo = <<>>

InitClean ==
    /\ MainIdle
    /\ raw_transcript \in Payloads
    /\ transcript = None
    /\ cpc = "header"
    /\ again = None

Pass(at, result, next) ==
    /\ cpc = at
    /\ transcript' = result
    /\ cpc' = next
    /\ UNCHANGED <<mvars, raw_transcript, again>>

PassHeader == Pass("header", StripHeader(raw_transcript), "timestamps")
PassTimestamps == Pass("timestamps", StripTimestamps(transcript), "tags")
PassTags == Pass("tags", StripTags(transcript), "brackets")
PassBrackets == Pass("brackets", StripBrackets(transcript), "angle")
PassAngle == Pass("angle", StripAngle(transcript), "fold")
PassFold == Pass("fold", FoldLines(transcript), "collapse")
PassCollapse == Pass("collapse", Collapse(transcript), "strip")
PassStrip == Pass("strip", Strip(transcript), "return")

\* The returned text is cleaned a second time.
CleanAgain ==
    /\ cpc = "return"
    /\ again' = clean_transcript(transcript)
    /\ cpc' = "again"
    /\ UNCHANGED <<mvars, raw_transcript, transcript>>

NextClean ==
    \/ PassHeader
    \/ PassTimestamps
    \/ PassTags
    \/ PassBrackets
    \/ PassAngle
    \/ PassFold
    \/ PassCollapse
    \/ PassStrip
    \/ CleanAgain

SpecClean == InitClean /\ [][NextClean]_vars

-----------------------------------------------------------------------------
(* Properties of fetch_metadata, checked under Spec.                       *)

\* Whether the last process_video call got the video's info and so returned
\* a record.
Returned == ~video.extracted.raised

NoEmptyField(metadata) ==
    metadata.title # <<>> /\ metadata.description # <<>> /\ metadata.transcript # <<>>

\* C1: every record process_video returns, and every record handed to
\* save_metadata or save_playlist_metadata, has a non-empty title, a non-empty
\* description and a non-empty transcript.
C1_NoEmptyField ==
    /\ Returned => NoEmptyField(video.metadata)
    /\ \A k \in 1..Len(saves) :
        \A j \in 1..Len(saves[k].batch) : NoEmptyField(saves[k].batch[j])

C3_FailureDetailKept ==
    (Returned /\ video.fetched /\ video.response.raised) =>
        /\ video.metadata # NoMetadata
        /\ video.metadata.transcript = ErrorFetching \o video.response.detail

\* The records of the entries processed successfully, in the entries' order.
RECURSIVE Records(_)
Records(entries) ==
    IF entries = <<>> THEN <<>>
    ELSE IF Head(entries).status = "processed"
    THEN <<Head(entries).metadata>> \o Records(Tail(entries))
    ELSE Records(Tail(entries))

\* C4: the batch passed to save_playlist_metadata is exactly the sequence of
\* the records of the entries processed successfully, in source order; null
\* and failed entries contribute nothing. The same holds of all_metadata
\* throughout the loop.
C4_BatchInSourceOrder ==
    /\ pc = "loop" => all_metadata = Records(visited)
    /\ \A k \in 1..Len(saves) :
        saves[k].fn = "save_playlist_metadata" => saves[k].batch = Records(visited)

\* Entries [v1, None, v3] saved as [record(v1), record(v3)], two different
\* records.
C4_Witness ==
    /\ saves # <<>>
    /\ Len(visited) = 3
    /\ visited[1].status = "processed"
    /\ visited[2].status = "unavailable"
    /\ visited[3].status = "processed"
    /\ visited[1].metadata # visited[3].metadata
    /\ saves[1].batch = <<visited[1].metadata, visited[3].metadata>>

\* C5: once a playlist is detected, whatever fails for a single entry, every
\* entry is visited and save_playlist_metadata is called exactly once, after
\* the last entry.
C5_PlaylistAlwaysSaved ==
    (pc = "done" /\ "entries" \in DOMAIN info) =>
        /\ Len(visited) = Len(info.entries)
        /\ Len(saves) = 1
        /\ saves[1].fn = "save_playlist_metadata"

\* The index of the writes of text that are lines of exactly 50 '-'.
IsDividerLine(text) ==
    /\ Len(text) = 51
    /\ \A k \in 1..50 : text[k] = "-"
    /\ text[51] = NL

DividerWrites(writes) == {k \in 1..Len(writes) : IsDividerLine(writes[k])}

\* A playlist was saved as text and the file was written.
PlaylistTextSaved ==
    /\ saves # <<>>
    /\ saves[1].fn = "save_playlist_metadata"
    /\ file # NoFile
    /\ file.ext = "txt"

\* Record k of the batch is written as its Title, Description and Transcript
\* parts, in that order, from write number at on.
PartsWritten(writes, at, metadata) ==
    /\ at + 2 <= Len(writes)
    /\ writes[at] = TitleLabel \o metadata.title \o <<NL>>
    /\ writes[at + 1] = DescriptionLabel \o metadata.description \o <<NL>>
    /\ writes[at + 2] = TranscriptLabel \o metadata.transcript \o <<NL>>

\* C8 as stated: the records are written in order, each as its three parts,
\* and a batch of n >= 1 records has a divider line between each pair of
\* adjacent records and nowhere else (n - 1 dividers, none after the last
\* record).
C8_DividerOnlyBetween ==
    PlaylistTextSaved =>
        LET batch == saves[1].batch
            n == Len(batch)
        IN  n >= 1 =>
              /\ \A k \in 1..n : PartsWritten(file.writes, 4 * (k - 1) + 1, batch[k])
              /\ DividerWrites(file.writes) = {4 * k : k \in 1..(n - 1)}

\* C8 as amended: the records are written in order, each as its three parts
\* followed by a divider line of exactly 50 '-', the last record included (n
\* dividers for n records, and nothing else is written).
C8_DividerAfterEveryRecord ==
    PlaylistTextSaved =>
        LET batch == saves[1].batch
            n == Len(batch)
        IN  /\ Len(file.writes) = 4 * n
            /\ \A k \in 1..n : PartsWritten(file.writes, 4 * (k - 1) + 1, batch[k])
            /\ DividerWrites(file.writes) = {4 * k : k \in 1..n}

\* A text file of a playlist of at least two records.
C8_Witness ==
    /\ PlaylistTextSaved
    /\ Len(saves[1].batch) >= 2
    /\ IsDividerLine(file.writes[Len(file.writes)])

\* Whether index k of the video's info has an "en" entry with a vtt encoding.
HasEnglishVtt(vinfo, k) ==
    /\ k \in DOMAIN vinfo
    /\ "en" \in DOMAIN vinfo[k]
    /\ \E j \in 1..Len(vinfo[k]["en"]) : vinfo[k]["en"][j].ext = "vtt"

\* C10: whenever the manual or the automatic caption index has an "en" entry
\* with a vtt encoding, process_video fetches and cleans a payload as the
\* transcript, and substitutes neither "not available" string.
C10_ManualOrAutomatic ==
    ( /\ Returned
      /\ \/ HasEnglishVtt(video.extracted.info, "subtitles")
         \/ HasEnglishVtt(video.extracted.info, "automatic_captions") ) =>
        /\ video.fetched
        /\ video.metadata.transcript = clean_transcript(fetch_transcript(video.response))
        /\ video.metadata.transcript \notin {NoEnglish, NoVtt}

-----------------------------------------------------------------------------
(* Properties of clean_transcript, checked under SpecClean.                *)

\* C6: clean_transcript is idempotent: cleaning its result again changes
\* nothing.
C6_Idempotent == cpc = "again" => again = transcript

AdjacentWhitespace(s) ==
    \E k \in 1..(Len(s) - 1) : s[k] \in Whitespace /\ s[k + 1] \in Whitespace

Contains(s, c) == \E k \in 1..Len(s) : s[k] = c

\* C7: the result of clean_transcript has no newline, no '<', no run of two
\* or more whitespace characters, and no leading or trailing whitespace.
C7_FlatLine ==
    cpc \in {"return", "again"} =>
        /\ ~Contains(transcript, NL)
        /\ ~Contains(transcript, "<")
        /\ ~AdjacentWhitespace(transcript)
        /\ transcript # <<>> =>
            /\ transcript[1] \notin Whitespace
            /\ transcript[Len(transcript)] \notin Whitespace

\* A payload with a newline next to other whitespace and a '<', cleaned to a
\* text that is not empty.
C7_Witness ==
    /\ cpc = "return"
    /\ Contains(raw_transcript, "<")
    /\ Contains(raw_transcript, NL)
    /\ AdjacentWhitespace(raw_transcript)
    /\ transcript # <<>>

\* The index after the line that starts at i: after its newline, or after the
\* end of the text when it is the last line and has none.
RECURSIVE LineEnd(_, _)
LineEnd(s, i) ==
    IF i > Len(s) THEN Len(s)
    ELSE IF s[i] = NL THEN i
    ELSE LineEnd(s, i + 1)

\* The text with every line that begins with a timestamp removed whole, and
\* every other line kept whole; i is the index of the start of a line.
RECURSIVE DropTimestampLines(_, _)
DropTimestampLines(s, i) ==
    IF i > Len(s) THEN <<>>
    ELSE LET e == LineEnd(s, i)
         IN  IF TimestampAt(s, i) THEN DropTimestampLines(s, e + 1)
             ELSE SubSeq(s, i, e) \o DropTimestampLines(s, e + 1)

\* C9: the timestamp pass removes, whole, every line that begins with an
\* HH:MM:SS.mmm timestamp, the last line included, and removes nothing from
\* the other lines.
C9_TimestampLinesRemoved ==
    cpc = "tags" =>
        transcript = DropTimestampLines(StripHeader(raw_transcript), 1)

====
